---- MODULE Spec2Model ----
(***************************************************************************)
(* The ledger service of ixand/duikt (src/unnamed/part_000): a hash-chained *)
(* block list and a mempool, each behind its own mutex, driven by gin       *)
(* request handlers that run concurrently.  A handler is a sequence of      *)
(* steps.  Taking a mutex is a step of its own; the critical section that   *)
(* follows, its Unlock and the handler's work on its own locals up to the   *)
(* next Lock form the next step.  proofOfWork, which touches locals only,   *)
(* is one step.                                                             *)
(***************************************************************************)
EXTENDS Integers, Sequences, FiniteSets, TLC

(***************************************************************************)
(* Bounds of the model.                                                     *)
(***************************************************************************)
MaxRequests == 3   \* requests served
MaxSubmits == 2    \* POST /transactions requests accepted
MaxMines == 2      \* POST /mine requests started
MaxTime == 2       \* last value of the wall clock
MaxNonce == 40     \* last nonce the search is followed to
HashLen == 6       \* hex digits of a digest

\* The goroutines serving requests.
Procs == {1, 2}

\* Defaults of the POST /mine body.
DefaultMaxTxs == 10

DefaultMiner == "miner-reward"

\* Request inputs: the fields of the JSON bodies and the :address parameter.
FromInputs == {"", "alice"}

ToInputs == {"", "bob"}

AmountInputs == {-1, 0, 5}

MaxTxsInputs == {0, 1, DefaultMaxTxs}

MinerInputs == {DefaultMiner, "alice"}

AddressInputs == {"alice", "bob"}

VARIABLES
    chain,            \* blockchain.Chain
    blockchainMutex,  \* blockchain.Mutex: 0 when free, else the holder
    mempoolTxs,       \* mempool.Txs
    mempoolMutex,     \* mempool.Mutex: 0 when free, else the holder
    now,              \* time.Now().Unix()
    nextId,           \* number of randomID calls made so far
    mines,            \* number of POST /mine requests started so far
    requests,         \* number of requests started so far
    Blocks,           \* lab1: BlockchainHlukhov.Blocks
    hashed,           \* the blocks handed to calculateHash, and their records
    frame,            \* per goroutine: position and locals of its handler
    added,            \* history: transactions appended by addTransactionToMempool
    flushed           \* history: what each flushMempool call returned

vars == <<chain, blockchainMutex, mempoolTxs, mempoolMutex, now, nextId, mines,
          requests, frame, added, flushed, Blocks, hashed>>

(***************************************************************************)
(* Data: Transaction, Block.                                                *)
(***************************************************************************)
NoTx == [ID |-> 0, From |-> "", To |-> "", Amount |-> 0, Timestamp |-> 0]

NoBlock ==
    [Index |-> -1, Timestamp |-> 0, Transactions |-> <<>>, Nonce |-> 0,
     PreviousHash |-> <<>>, Hash |-> <<>>]

Difficulty == 3

RewardAmount == 1

(***************************************************************************)
(* Text.  A string the code builds is a sequence of characters; a decimal   *)
(* number is written digit by digit, a JSON key or a quoted address is one  *)
(* character of the model.                                                  *)
(***************************************************************************)
DigitChars == <<"0", "1", "2", "3", "4", "5", "6", "7", "8", "9">>

RECURSIVE Decimal(_)
Decimal(k) == IF k < 10 THEN <<DigitChars[k + 1]>>
              ELSE Decimal(k \div 10) \o <<DigitChars[(k % 10) + 1]>>

\* strconv.Itoa and strconv.FormatInt(_, 10)
Itoa(k) == IF k < 0 THEN <<"-">> \o Decimal(-k) ELSE Decimal(k)

\* encoding/json of a string without characters to escape
Quoted(s) == <<"\"", s, "\"">>

\* encoding/json of one Transaction, fields in declaration order
TransactionJSON(t) ==
    <<"{", "id:", "\"">> \o Itoa(t.ID) \o <<"\"", ",", "from:">> \o Quoted(t.From)
    \o <<",", "to:">> \o Quoted(t.To) \o <<",", "amount:">> \o Itoa(t.Amount)
    \o <<",", "timestamp:">> \o Itoa(t.Timestamp) \o <<"}">>

RECURSIVE ElementsJSON(_)
ElementsJSON(txs) ==
    IF Len(txs) = 0 THEN <<>>
    ELSE IF Len(txs) = 1 THEN TransactionJSON(txs[1])
    ELSE TransactionJSON(txs[1]) \o <<",">> \o ElementsJSON(Tail(txs))

transactionsToString(txs) ==
    IF Len(txs) = 0 THEN <<>> ELSE <<"[">> \o ElementsJSON(txs) \o <<"]">>

\* The record calculateHash digests: the part before the nonce, the part
\* from the nonce on, and the whole.
RecordHead(b) ==
    Itoa(b.Index) \o Itoa(b.Timestamp) \o transactionsToString(b.Transactions)

RecordTail(b) == Itoa(b.Nonce) \o b.PreviousHash

Record(b) == RecordHead(b) \o RecordTail(b)

(***************************************************************************)
(* sha256.Sum256 followed by hex.EncodeToString: a deterministic digest of  *)
(* the record, HashLen hex digits long.  The digest is a polynomial         *)
(* checksum of the characters, absorbed left to right; every digit shows    *)
(* one bit of it.                                                           *)
(***************************************************************************)
Alphabet ==
    DigitChars \o
    <<"f", "-", "\"", "{", "}", "[", "]", ",", "id:", "from:", "to:", "amount:",
      "timestamp:", "alice", "bob", "network", "miner-reward", "",
      "Genesis Block", "My first block", "My second block", "Hlukhov">>

CodeOf == [c \in {Alphabet[i] : i \in 1..Len(Alphabet)} |->
              CHOOSE i \in 1..Len(Alphabet) : Alphabet[i] = c]

HexDigits == <<"0", "f">>

Modulus == 4093

Multiplier == 33

\* Multiplier^k modulo Modulus
RECURSIVE PowMod(_)
PowMod(k) ==
    IF k = 0 THEN 1
    ELSE IF k % 2 = 1 THEN (PowMod(k - 1) * Multiplier) % Modulus
    ELSE LET h == PowMod(k \div 2) IN (h * h) % Modulus

\* The polynomial s[lo] * Multiplier^(hi-lo) + ... + s[hi] modulo Modulus,
\* evaluated by halving the range.
RECURSIVE Checksum(_, _, _)
Checksum(s, lo, hi) ==
    IF lo > hi THEN 0
    ELSE IF lo = hi THEN CodeOf[s[lo]]
    ELSE LET mid == (lo + hi) \div 2
         IN  (Checksum(s, lo, mid) * PowMod(hi - mid) + Checksum(s, mid + 1, hi))
             % Modulus

\* The state of the digest before it has absorbed anything.
InitialState == 1

\* The state of the digest after it has absorbed s, from state c.
Absorb(c, s) == (c * PowMod(Len(s)) + Checksum(s, 1, Len(s))) % Modulus

\* The hex digits of the digest in state c.
HexOf(c) ==
    [i \in 1..HashLen |->
        HexDigits[((c \div (Len(HexDigits) ^ (i - 1))) % Len(HexDigits)) + 1]]

Sum256(record) == HexOf(Absorb(InitialState, record))

calculateHash(b) == Sum256(Record(b))

\* strings.Repeat("0", k)
Repeat0(k) == [i \in 1..k |-> "0"]

\* strings.HasPrefix
HasPrefix(s, prefix) ==
    /\ Len(s) >= Len(prefix)
    /\ SubSeq(s, 1, Len(prefix)) = prefix

(***************************************************************************)
(* Handler frames.                                                          *)
(***************************************************************************)
\* What the handler answered: the HTTP status and, where the answer carries a
\* value computed by the handler, that value (the new transaction, the mined
\* block, the balance).  The listings of GET /mempool and GET /chain are
\* serialized under the lock and leave no trace in the service.
NoResp == [status |-> 0, tx |-> NoTx, block |-> NoBlock, balance |-> 0]

IdleFrame ==
    [pc |-> "idle", kind |-> "none",
     miner |-> "", tx |-> NoTx, n |-> 0, drained |-> <<>>, selected |-> <<>>,
     last |-> NoBlock,
     newBlock |-> NoBlock, address |-> "", bal |-> 0,
     resp |-> NoResp]

\* The server takes one more request and hands it to a goroutine.  Idle
\* goroutines are alike, so the request goes to the first of them.
Accept(p) ==
    /\ requests < MaxRequests
    /\ \A q \in Procs : q < p => frame[q].pc # "idle"
    /\ requests' = requests + 1

\* sync.Mutex: Lock returns only when the mutex is free.
MutexFree(m) == m = 0

Goto(p, label) == frame' = [frame EXCEPT ![p].pc = label]

(***************************************************************************)
(* init: the genesis block.                                                 *)
(***************************************************************************)
Genesis(t) ==
    LET genesis == [Index |-> 0, Timestamp |-> t, Transactions |-> <<>>,
                    Nonce |-> 0, PreviousHash |-> <<"0">>, Hash |-> <<>>]
    IN  [genesis EXCEPT !.Hash = calculateHash(genesis)]

\* The ledger service after init().
Started ==
    /\ now = 1
    /\ chain = <<Genesis(now)>>
    /\ blockchainMutex = 0
    /\ mempoolTxs = <<>>
    /\ mempoolMutex = 0
    /\ nextId = 0
    /\ mines = 0
    /\ requests = 0
    /\ frame = [p \in Procs |-> IdleFrame]
    /\ added = <<>>
    /\ flushed = <<>>

Init ==
    /\ Started
    /\ Blocks = <<>>
    /\ hashed = <<>>

\* The wall clock advances.
Tick ==
    /\ now < MaxTime
    /\ now' = now + 1
    /\ UNCHANGED <<requests, chain, blockchainMutex, mempoolTxs, mempoolMutex, nextId,
                   mines, frame, added, flushed,
                   Blocks, hashed>>

(***************************************************************************)
(* POST /transactions                                                       *)
(***************************************************************************)
\* binding:"required" and binding:"required,gt=0"
\* A binding that lets a zero amount through.
BindingOKZeroAmount(body) == body.From # "" /\ body.To # "" /\ body.Amount >= 0

BindingOK(body) == body.From # "" /\ body.To # "" /\ body.Amount > 0

createTransaction(id, from, to, amount, t) ==
    [ID |-> id, From |-> from, To |-> to, Amount |-> amount, Timestamp |-> t]

\* Accepted submissions so far, the ones still on their way included.
Submits ==
    Len(added) + Cardinality({q \in Procs : frame[q].pc \in {"add_lock", "add_append"}})

\* The handler run on one request body.
PostTransactionsWith(p, body) ==
    /\ frame[p].pc = "idle"
    /\ Accept(p)
    /\ IF ~BindingOK(body)
       THEN /\ frame' = [frame EXCEPT ![p] =
                  [IdleFrame EXCEPT !.pc = "done", !.kind = "submit",
                                    !.resp.status = 400]]
            /\ UNCHANGED nextId
       ELSE /\ Submits < MaxSubmits
            /\ nextId' = nextId + 1
            /\ frame' = [frame EXCEPT ![p] =
                  [IdleFrame EXCEPT !.pc = "add_lock", !.kind = "submit",
                      !.tx = createTransaction(nextId + 1, body.From, body.To,
                                               body.Amount, now)]]
    /\ UNCHANGED <<chain, blockchainMutex, mempoolTxs, mempoolMutex, now, mines,
                   added, flushed,
                   Blocks, hashed>>

Bodies == [From : FromInputs, To : ToInputs, Amount : AmountInputs]

PostTransactions(p) == \E body \in Bodies : PostTransactionsWith(p, body)

\* addTransactionToMempool: mempool.Mutex.Lock()
AddLock(p) ==
    /\ frame[p].pc = "add_lock"
    /\ MutexFree(mempoolMutex)
    /\ mempoolMutex' = p
    /\ Goto(p, "add_append")
    /\ UNCHANGED <<requests, chain, blockchainMutex, mempoolTxs, now, nextId, mines,
                   added, flushed,
                   Blocks, hashed>>

\* addTransactionToMempool: the append, the deferred Unlock, and the response
AddAppend(p) ==
    /\ frame[p].pc = "add_append"
    /\ mempoolTxs' = Append(mempoolTxs, frame[p].tx)
    /\ mempoolMutex' = 0
    /\ added' = Append(added, frame[p].tx)
    /\ frame' = [frame EXCEPT ![p].pc = "done", ![p].resp.status = 201,
                              ![p].resp.tx = frame[p].tx]
    /\ UNCHANGED <<requests, chain, blockchainMutex, now, nextId, mines, flushed,
                   Blocks, hashed>>

(***************************************************************************)
(* GET /mempool, GET /chain, GET /ping                                      *)
(***************************************************************************)
GetMempoolLock(p) ==
    /\ frame[p].pc = "idle"
    /\ Accept(p)
    /\ MutexFree(mempoolMutex)
    /\ mempoolMutex' = p
    /\ frame' = [frame EXCEPT ![p] =
                    [IdleFrame EXCEPT !.pc = "pending_read", !.kind = "pending"]]
    /\ UNCHANGED <<chain, blockchainMutex, mempoolTxs, now, nextId, mines,
                   added, flushed,
                   Blocks, hashed>>

GetMempoolRead(p) ==
    /\ frame[p].pc = "pending_read"
    /\ mempoolMutex' = 0
    /\ frame' = [frame EXCEPT ![p].pc = "done", ![p].resp.status = 200]
    /\ UNCHANGED <<requests, chain, blockchainMutex, mempoolTxs, now, nextId, mines,
                   added, flushed,
                   Blocks, hashed>>

GetChainLock(p) ==
    /\ frame[p].pc = "idle"
    /\ Accept(p)
    /\ MutexFree(blockchainMutex)
    /\ blockchainMutex' = p
    /\ frame' = [frame EXCEPT ![p] =
                    [IdleFrame EXCEPT !.pc = "chain_read", !.kind = "chain"]]
    /\ UNCHANGED <<chain, mempoolTxs, mempoolMutex, now, nextId, mines,
                   added, flushed,
                   Blocks, hashed>>

GetChainRead(p) ==
    /\ frame[p].pc = "chain_read"
    /\ blockchainMutex' = 0
    /\ frame' = [frame EXCEPT ![p].pc = "done", ![p].resp.status = 200]
    /\ UNCHANGED <<requests, chain, mempoolTxs, mempoolMutex, now, nextId, mines,
                   added, flushed,
                   Blocks, hashed>>

GetPing(p) ==
    /\ frame[p].pc = "idle"
    /\ Accept(p)
    /\ frame' = [frame EXCEPT ![p] =
                    [IdleFrame EXCEPT !.pc = "done", !.kind = "ping",
                                      !.resp.status = 200]]
    /\ UNCHANGED <<chain, blockchainMutex, mempoolTxs, mempoolMutex, now,
                   nextId, mines, added, flushed,
                   Blocks, hashed>>

\* The handler returns; its locals are gone.
Return(p) ==
    /\ frame[p].pc = "done"
    /\ frame' = [frame EXCEPT ![p] = IdleFrame]
    /\ UNCHANGED <<requests, chain, blockchainMutex, mempoolTxs, mempoolMutex, now,
                   nextId, mines, added, flushed,
                   Blocks, hashed>>

(***************************************************************************)
(* POST /mine                                                               *)
(***************************************************************************)
PostMine(p) ==
    /\ frame[p].pc = "idle"
    /\ Accept(p)
    /\ mines < MaxMines
    /\ mines' = mines + 1
    /\ \E maxTxs \in MaxTxsInputs, miner \in MinerInputs :
         frame' = [frame EXCEPT ![p] =
            [IdleFrame EXCEPT !.pc = "flush_lock", !.kind = "mine",
                              !.n = maxTxs, !.miner = miner]]
    /\ UNCHANGED <<chain, blockchainMutex, mempoolTxs, mempoolMutex, now, nextId,
                   added, flushed,
                   Blocks, hashed>>

\* flushMempool: mempool.Mutex.Lock()
FlushLock(p) ==
    /\ frame[p].pc = "flush_lock"
    /\ MutexFree(mempoolMutex)
    /\ mempoolMutex' = p
    /\ Goto(p, "flush")
    /\ UNCHANGED <<requests, chain, blockchainMutex, mempoolTxs, now, nextId, mines,
                   added, flushed,
                   Blocks, hashed>>

\* A comparison n < 0 in place of n <= 0.
FlushCountStrict(n, len) == IF n < 0 \/ n > len THEN len ELSE n

\* flushMempool: the number of transactions taken
FlushCount(n, len) == IF n <= 0 \/ n > len THEN len ELSE n

\* A copy that stops one short, mempool.Txs[:n-1].
FlushSelectedShort(txs, n) == SubSeq(txs, 1, FlushCount(n, Len(txs)) - 1)

\* flushMempool: selected, a copy of mempool.Txs[:n]
FlushSelected(txs, n) == SubSeq(txs, 1, FlushCount(n, Len(txs)))

\* A flush that forgets to remove what it selected.
FlushRestKeepsAll(txs, n) == txs

\* flushMempool: what is left, mempool.Txs[n:]
FlushRest(txs, n) == SubSeq(txs, FlushCount(n, Len(txs)) + 1, Len(txs))

\* A coinbase transaction that ignores the requested miner.
RewardTxDefaultOnly(id, miner, t) ==
    [ID |-> id, From |-> "network", To |-> "miner-reward", Amount |-> RewardAmount,
     Timestamp |-> t]

\* The coinbase transaction.
RewardTx(id, miner, t) ==
    [ID |-> id, From |-> "network", To |-> miner, Amount |-> RewardAmount,
     Timestamp |-> t]

\* flushMempool under the lock, its deferred Unlock and return; then the
\* handler puts the coinbase transaction in front of the selected ones.
\* A flushMempool without its deferred Unlock.
flushMempoolKeepsLock(p) == p

\* flushMempool: the holder of mempool.Mutex after the deferred Unlock
flushMempoolUnlock(p) == 0

FlushMempool(p) ==
    /\ frame[p].pc = "flush"
    /\ mempoolTxs' = FlushRest(mempoolTxs, frame[p].n)
    /\ mempoolMutex' = flushMempoolUnlock(p)
    /\ nextId' = nextId + 1
    /\ LET selected == FlushSelected(mempoolTxs, frame[p].n)
           reward == RewardTx(nextId + 1, frame[p].miner, now)
       IN  /\ flushed' = Append(flushed, selected)
           /\ frame' = [frame EXCEPT ![p].pc = "last_lock",
                           ![p].n = FlushCount(frame[p].n, Len(mempoolTxs)),
                           ![p].drained = selected,
                           ![p].selected = <<reward>> \o selected]
    /\ UNCHANGED <<requests, chain, blockchainMutex, now, mines, added,
                   Blocks, hashed>>

\* getLastBlock: bc.Mutex.Lock()
LastLock(p) ==
    /\ frame[p].pc = "last_lock"
    /\ MutexFree(blockchainMutex)
    /\ blockchainMutex' = p
    /\ Goto(p, "last_read")
    /\ UNCHANGED <<requests, chain, mempoolTxs, mempoolMutex, now, nextId, mines, added,
                   flushed,
                   Blocks, hashed>>

\* A getLastBlock without its deferred Unlock.
getLastBlockKeepsLock(p) == p

\* getLastBlock: the holder of bc.Mutex after the deferred Unlock
getLastBlockUnlock(p) == 0

\* getLastBlock: the block returned
getLastBlock(c) == c[Len(c)]

\* The candidate block.
Candidate(last, selected, t) ==
    [Index |-> last.Index + 1, Timestamp |-> t, Transactions |-> selected,
     Nonce |-> 0, PreviousHash |-> last.Hash, Hash |-> <<>>]

\* getLastBlock under the lock, its deferred Unlock and return; then the
\* handler builds the candidate block.
LastRead(p) ==
    /\ frame[p].pc = "last_read"
    /\ blockchainMutex' = getLastBlockUnlock(p)
    /\ LET last == getLastBlock(chain)
       IN  frame' = [frame EXCEPT ![p].pc = "pow", ![p].last = last,
                        ![p].newBlock = Candidate(last, frame[p].selected, now)]
    /\ UNCHANGED <<requests, chain, mempoolTxs, mempoolMutex, now, nextId, mines, added,
                   flushed,
                   Blocks, hashed>>

\* A test that asks for one zero fewer.
SatisfiesShort(hash, difficulty) == HasPrefix(hash, Repeat0(difficulty - 1))

\* proofOfWork: the test of one nonce
Satisfies(hash, difficulty) == HasPrefix(hash, Repeat0(difficulty))

\* proofOfWork: the loop, entered with the given nonce; it runs on the
\* handler's own copy of the block.  Each turn takes calculateHash of the
\* block with that nonce; head is the digest state after the part of the
\* record that no turn changes.
RECURSIVE Search(_, _, _, _)
Search(head, b, difficulty, nonce) ==
    LET hash == HexOf(Absorb(head, RecordTail([b EXCEPT !.Nonce = nonce])))
    IN  IF Satisfies(hash, difficulty)
        THEN [found |-> TRUE, nonce |-> nonce, hash |-> hash]
        ELSE IF nonce >= MaxNonce
        THEN [found |-> FALSE, nonce |-> nonce, hash |-> hash]
        ELSE Search(head, b, difficulty, nonce + 1)

\* A search that starts at nonce 1.
proofOfWorkFromOne(b, difficulty) ==
    Search(Absorb(InitialState, RecordHead(b)), b, difficulty, 1)

proofOfWork(b, difficulty) ==
    Search(Absorb(InitialState, RecordHead(b)), b, difficulty, 0)

\* proofOfWork returns, and the handler stores nonce and hash in newBlock
ProofOfWork(p) ==
    /\ frame[p].pc = "pow"
    /\ LET r == proofOfWork(frame[p].newBlock, Difficulty)
       IN  /\ r.found
           /\ frame' = [frame EXCEPT ![p].pc = "block_lock",
                           ![p].newBlock.Nonce = r.nonce,
                           ![p].newBlock.Hash = r.hash]
    /\ UNCHANGED <<requests, chain, blockchainMutex, mempoolTxs, mempoolMutex, now, nextId,
                   mines, added, flushed,
                   Blocks, hashed>>

\* addBlock: bc.Mutex.Lock()
BlockLock(p) ==
    /\ frame[p].pc = "block_lock"
    /\ MutexFree(blockchainMutex)
    /\ blockchainMutex' = p
    /\ Goto(p, "block_append")
    /\ UNCHANGED <<requests, chain, mempoolTxs, mempoolMutex, now, nextId, mines, added,
                   flushed,
                   Blocks, hashed>>

\* An addBlock that overwrites the last block.
addBlockOverTip(c, b) == Append(SubSeq(c, 1, Len(c) - 1), b)

\* An addBlock that appends the block twice.
addBlockTwice(c, b) == Append(Append(c, b), b)

\* addBlock: the chain after the call
addBlock(c, b) == Append(c, b)

\* addBlock: the append, the deferred Unlock, and the response
BlockAppend(p) ==
    /\ frame[p].pc = "block_append"
    /\ chain' = addBlock(chain, frame[p].newBlock)
    /\ blockchainMutex' = 0
    /\ frame' = [frame EXCEPT ![p].pc = "done", ![p].resp.status = 200,
                              ![p].resp.block = frame[p].newBlock]
    /\ UNCHANGED <<requests, mempoolTxs, mempoolMutex, now, nextId, mines, added, flushed,
                   Blocks, hashed>>

(***************************************************************************)
(* GET /balance/:address                                                    *)
(***************************************************************************)
\* A sum that credits recipients and never debits senders.
RECURSIVE NetCreditsOnly(_, _)
NetCreditsOnly(txs, address) ==
    IF Len(txs) = 0 THEN 0
    ELSE (IF txs[1].To = address THEN txs[1].Amount ELSE 0)
         + NetCreditsOnly(Tail(txs), address)

\* The loop body of getBalance, over a list of transactions.
RECURSIVE Net(_, _)
Net(txs, address) ==
    IF Len(txs) = 0 THEN 0
    ELSE (IF txs[1].To = address THEN txs[1].Amount ELSE 0)
         - (IF txs[1].From = address THEN txs[1].Amount ELSE 0)
         + Net(Tail(txs), address)

RECURSIVE NetChain(_, _)
NetChain(blocks, address) ==
    IF Len(blocks) = 0 THEN 0
    ELSE Net(blocks[1].Transactions, address) + NetChain(Tail(blocks), address)

\* getBalance: bc.Mutex.Lock() and the loop over the chain
BalanceLock(p) ==
    /\ frame[p].pc = "idle"
    /\ Accept(p)
    /\ MutexFree(blockchainMutex)
    /\ blockchainMutex' = p
    /\ \E address \in AddressInputs :
         frame' = [frame EXCEPT ![p] =
            [IdleFrame EXCEPT !.pc = "bal_lock", !.kind = "balance",
                              !.address = address,
                              !.bal = NetChain(chain, address)]]
    /\ UNCHANGED <<chain, mempoolTxs, mempoolMutex, now, nextId, mines, added,
                   flushed,
                   Blocks, hashed>>

\* getBalance: mempool.Mutex.Lock(), with bc.Mutex still held
BalanceMempoolLock(p) ==
    /\ frame[p].pc = "bal_lock"
    /\ MutexFree(mempoolMutex)
    /\ mempoolMutex' = p
    /\ Goto(p, "bal_mempool")
    /\ UNCHANGED <<requests, chain, blockchainMutex, mempoolTxs, now, nextId, mines, added,
                   flushed,
                   Blocks, hashed>>

\* getBalance: the loop over the mempool, both unlocks, and the response
BalanceMempool(p) ==
    /\ frame[p].pc = "bal_mempool"
    /\ mempoolMutex' = 0
    /\ blockchainMutex' = 0
    /\ LET bal == frame[p].bal + Net(mempoolTxs, frame[p].address)
       IN  frame' = [frame EXCEPT ![p].pc = "done", ![p].bal = bal,
                        ![p].resp.status = 200, ![p].resp.balance = bal]
    /\ UNCHANGED <<requests, chain, mempoolTxs, now, nextId, mines, added, flushed,
                   Blocks, hashed>>

(***************************************************************************)
(* The service.                                                             *)
(***************************************************************************)
\* The handlers.
Serve ==
    \E p \in Procs :
        \/ PostTransactions(p) \/ AddLock(p) \/ AddAppend(p)
        \/ GetMempoolLock(p) \/ GetMempoolRead(p)
        \/ GetChainLock(p) \/ GetChainRead(p)
        \/ GetPing(p)
        \/ PostMine(p) \/ FlushLock(p) \/ FlushMempool(p)
        \/ LastLock(p) \/ LastRead(p)
        \/ ProofOfWork(p) \/ BlockLock(p) \/ BlockAppend(p)
        \/ BalanceLock(p) \/ BalanceMempoolLock(p)
        \/ BalanceMempool(p)
        \/ Return(p)

Next == Tick \/ Serve

Spec == Init /\ [][Next]_vars

\* The service while the clock shows one and the same second.
SpecOneSecond == Init /\ [][Serve]_vars

(***************************************************************************)
(* Properties.                                                              *)
(***************************************************************************)
Range(s) == {s[i] : i \in 1..Len(s)}

Mining(p) == frame[p].kind = "mine"

\* The transactions of all committed blocks, in chain order.
RECURSIVE Committed(_)
Committed(blocks) ==
    IF Len(blocks) = 0 THEN <<>>
    ELSE blocks[1].Transactions \o Committed(Tail(blocks))

\* The number of positions of s that hold t.
Count(s, t) == Cardinality({i \in 1..Len(s) : s[i] = t})

\* Everything flushMempool calls have returned, in call order.
RECURSIVE Returned(_)
Returned(log) ==
    IF Len(log) = 0 THEN <<>> ELSE log[1] \o Returned(Tail(log))

\* What the flushMempool call of p's current request returned.
DrainedBy(p) == frame[p].drained

\* What spec section 4.4 requires of a block handed to append.
ValidAppend(c, b) ==
    /\ b.Index = c[Len(c)].Index + 1
    /\ b.PreviousHash = c[Len(c)].Hash
    /\ b.Hash = calculateHash(b)
    /\ Satisfies(b.Hash, Difficulty)

\* C1: every block after the genesis block names the hash of the block before
\* it as its PreviousHash, and its Hash is calculateHash of its own fields.
C1_HashLinkage ==
    \A i \in 2..Len(chain) :
        /\ chain[i].PreviousHash = chain[i - 1].Hash
        /\ chain[i].Hash = calculateHash(chain[i])

\* C2: of two finished mine requests that read the same tip, exactly one
\* succeeded and has its block in the chain; the other failed, its block is
\* not in the chain, and the transactions it drained are pending again.
C2_ExactlyOneSucceeds ==
    \A p \in Procs, q \in Procs :
        ( /\ p # q
          /\ Mining(p) /\ Mining(q)
          /\ frame[p].pc = "done" /\ frame[q].pc = "done"
          /\ frame[p].last = frame[q].last )
        => \E w \in {p, q}, l \in {p, q} :
              /\ w # l
              /\ frame[w].resp.status = 200
              /\ frame[w].newBlock \in Range(chain)
              /\ frame[l].resp.status # 200
              /\ frame[l].newBlock \notin Range(chain)
              /\ \A t \in Range(DrainedBy(l)) : t \in Range(mempoolTxs)

\* C3: the block at chain position i (counted from 0) has Index i, so no two
\* committed blocks carry the same index.
C3_BlockIndices ==
    \A i \in 1..Len(chain) : chain[i].Index = i - 1

\* C4: addBlock appends a block only if its index, previous hash, own hash and
\* difficulty are all valid; otherwise the chain stays as it is.
C4_AppendValidates ==
    [][\A p \in Procs :
          (frame[p].pc = "block_append" /\ frame'[p].pc = "done")
          => IF ValidAppend(chain, frame[p].newBlock)
             THEN chain' = Append(chain, frame[p].newBlock)
             ELSE chain' = chain /\ frame'[p].resp.status # 200]_vars

\* C5: no transaction occurs twice in the committed blocks, and no transaction
\* is both pending in the mempool and in a committed block.
C5_ExactlyOnceInclusion ==
    LET all == Committed(chain)
    IN  /\ \A i \in 1..Len(all), j \in 1..Len(all) : i # j => all[i] # all[j]
        /\ \A i \in 1..Len(all) : all[i] \notin Range(mempoolTxs)

\* C5 witness: a submitted transaction is committed while another is pending.
C5_Witness ==
    /\ \E i \in 2..Len(chain) : Len(chain[i].Transactions) >= 2
    /\ mempoolTxs # <<>>

\* C6: every transaction added to the mempool is either pending exactly once
\* or was returned by exactly one flushMempool call, never both, never neither.
C6_DrainAtomicity ==
    \A t \in Range(added) : Count(mempoolTxs \o Returned(flushed), t) = 1

\* C6 witness: a flush of a non-empty mempool is in progress (it holds the
\* lock) while an addTransactionToMempool call waits to add.
C6_Witness ==
    \E p \in Procs, q \in Procs :
        /\ frame[p].pc = "flush"
        /\ frame[q].pc = "add_lock"
        /\ mempoolTxs # <<>>

\* C7: flushMempool(n) on pending p1..pk returns p1..pm and leaves p(m+1)..pk
\* in order, with m = k when n <= 0 or n > k and m = n otherwise; with k = 0 it
\* returns nothing and changes nothing.
C7_DrainFifoBounded ==
    [][\A p \in Procs :
          (frame[p].pc = "flush" /\ frame'[p].pc = "last_lock")
          => LET k == Len(mempoolTxs)
                 n == frame[p].n
                 m == IF n <= 0 \/ n > k THEN k ELSE n
                 returned == flushed'[Len(flushed')]
             IN  /\ Len(returned) = m
                 /\ \A i \in 1..m : returned[i] = mempoolTxs[i]
                 /\ Len(mempoolTxs') = k - m
                 /\ \A i \in 1..(k - m) : mempoolTxs'[i] = mempoolTxs[m + i]
                 /\ (k = 0 => returned = <<>> /\ mempoolTxs' = mempoolTxs)]_vars

\* C7 witness: a flush with 0 < n < k has happened: of two submitted
\* transactions the first was returned and the second is still pending.
C7_Witness ==
    /\ Len(added) = 2
    /\ mempoolTxs = <<added[2]>>
    /\ \E i \in 1..Len(flushed) : flushed[i] = <<added[1]>>

\* C8: the step that completes a mine request makes the chain one block
\* longer, and the new block holds the reward transaction (from "network",
\* amount 1, to the requested miner) followed by what the request drained.
C8_MinedBlockContent ==
    [][\A p \in Procs :
          (frame[p].pc = "block_append" /\ frame'[p].pc = "done")
          => LET b == chain'[Len(chain')]
                 txs == b.Transactions
             IN  /\ Len(chain') = Len(chain) + 1
                 /\ Len(txs) = 1 + Len(DrainedBy(p))
                 /\ txs[1].From = "network"
                 /\ txs[1].Amount = 1
                 /\ txs[1].ID \notin {t.ID : t \in Range(DrainedBy(p))}
                 /\ txs[1].To = frame[p].miner
                 /\ SubSeq(txs, 2, Len(txs)) = DrainedBy(p)
                 /\ frame'[p].resp.block = b]_vars

\* C8 witness: mine requests have completed with the default and with a
\* requested miner address, one of them with drained transactions.
C8_Witness ==
    /\ Len(chain) = 3
    /\ \E i \in 2..3, j \in 2..3 :
          /\ chain[i].Transactions[1].To = "miner-reward"
          /\ chain[j].Transactions[1].To = "alice"
    /\ \E i \in 2..3 : Len(chain[i].Transactions) > 1

\* C9: no request holds blockchain.Mutex and mempool.Mutex at the same time.
C9_OneLockAtATime ==
    \A p \in Procs : ~(blockchainMutex = p /\ mempoolMutex = p)

\* The next step of a request that is not a mine request.
ReaderStep(q) ==
    \/ AddLock(q) \/ AddAppend(q)
    \/ GetMempoolRead(q) \/ GetChainRead(q)
    \/ BalanceMempoolLock(q) \/ BalanceMempool(q)

\* C10: a mine request inside the nonce search holds neither mutex, its
\* candidate is its own copy (built from the tip it read and its own selected
\* transactions), and every other request under way can take its next step.
C10_SearchOutsideLocks ==
    \A p \in Procs :
        frame[p].pc = "pow"
        => /\ blockchainMutex # p
           /\ mempoolMutex # p
           /\ frame[p].newBlock.Transactions = frame[p].selected
           /\ frame[p].newBlock.PreviousHash = frame[p].last.Hash
           /\ \A q \in Procs \ {p} :
                 frame[q].kind \in {"submit", "pending", "chain", "balance"}
                 /\ frame[q].pc # "done"
                 => ENABLED ReaderStep(q)

\* C10 witness: while one goroutine is inside the search, a balance request
\* has taken the chain lock (free only after the searcher read the tip) and
\* the mempool lock.
C10_Witness ==
    \E p \in Procs, q \in Procs :
        /\ frame[p].pc = "pow"
        /\ frame[q].pc = "bal_mempool"
        /\ blockchainMutex = q /\ mempoolMutex = q


\* C11: every block after the genesis block has a Hash that begins with
\* Difficulty zero hex digits; the genesis block need not.
C11_DifficultyInvariant ==
    \A i \in 2..Len(chain) :
        /\ Len(chain[i].Hash) >= Difficulty
        /\ \A k \in 1..Difficulty : chain[i].Hash[k] = "0"

\* C11 witness: a block is committed whose search had to pass over nonces,
\* on top of a genesis block whose own hash does not meet the difficulty.
C11_Witness ==
    /\ Len(chain) >= 2
    /\ chain[2].Nonce > 0
    /\ \E k \in 1..Difficulty : chain[1].Hash[k] # "0"


\* s begins with d zero hex digits.
LeadingZeros(s, d) == Len(s) >= d /\ \A k \in 1..d : s[k] = "0"

\* (nonce, hash) is what the claim says of proofOfWork(b, d): hash is
\* calculateHash of b with that nonce, it begins with d zeros, and no smaller
\* nonce from 0 on gives such a hash.
FirstNonce(b, d, nonce, hash) ==
    /\ nonce >= 0
    /\ hash = calculateHash([b EXCEPT !.Nonce = nonce])
    /\ LeadingZeros(hash, d)
    /\ \A m \in 0..(nonce - 1) :
          ~LeadingZeros(calculateHash([b EXCEPT !.Nonce = m]), d)

\* What the claim asks of a submission: positive amount, both addresses given.
WellFormed(body) == body.Amount > 0 /\ body.From # "" /\ body.To # ""

\* C13: a submission with amount > 0 and non-empty sender and recipient is
\* accepted, and its request appends exactly one transaction with those field
\* values to the end of the mempool; any other submission is rejected (status
\* 400) and its request changes neither the mempool nor the chain.
C13_SubmitValidation ==
    [][\A p \in Procs :
          /\ \A body \in Bodies :
                PostTransactionsWith(p, body)
                => IF WellFormed(body)
                   THEN /\ frame'[p].pc = "add_lock"
                        /\ frame'[p].tx.From = body.From
                        /\ frame'[p].tx.To = body.To
                        /\ frame'[p].tx.Amount = body.Amount
                   ELSE /\ frame'[p].pc = "done"
                        /\ frame'[p].resp.status = 400
                        /\ mempoolTxs' = mempoolTxs
                        /\ chain' = chain
          /\ frame[p].pc = "add_lock" /\ frame'[p] # frame[p]
             => /\ frame'[p].pc = "add_append"
                /\ frame'[p].tx = frame[p].tx
                /\ mempoolTxs' = mempoolTxs
                /\ chain' = chain
          /\ frame[p].pc = "add_append" /\ frame'[p] # frame[p]
             => /\ mempoolTxs' = Append(mempoolTxs, frame[p].tx)
                /\ chain' = chain
                /\ frame'[p].resp.status = 201
                /\ frame'[p].resp.tx = frame[p].tx
          /\ frame[p].kind = "submit" /\ frame[p].pc = "done" /\ frame'[p] # frame[p]
             => /\ mempoolTxs' = mempoolTxs
                /\ chain' = chain
      ]_vars

\* C13 witness: one submission has been rejected while another has been
\* accepted and its transaction is the last one of the mempool.
C13_Witness ==
    \E p, q \in Procs :
        /\ frame[p].kind = "submit" /\ frame[p].resp.status = 400
        /\ frame[q].kind = "submit" /\ frame[q].resp.status = 201
        /\ Len(mempoolTxs) > 0
        /\ mempoolTxs[Len(mempoolTxs)] = frame[q].resp.tx


\* The sum of the amounts of the transactions of txs whose field f is a.
RECURSIVE SumWhere(_, _, _)
SumWhere(txs, f, a) ==
    IF Len(txs) = 0 THEN 0
    ELSE SumWhere(SubSeq(txs, 1, Len(txs) - 1), f, a)
         + (IF txs[Len(txs)][f] = a THEN txs[Len(txs)].Amount ELSE 0)

\* Received minus sent, over a sequence of transactions.
Balance(txs, a) == SumWhere(txs, "To", a) - SumWhere(txs, "From", a)

\* A mine request is between its acceptance and its response.
MineInFlight == \E q \in Procs : Mining(q) /\ frame[q].pc # "done"

\* C14: when no mine request is in flight, the balance a query answers is the
\* amount received minus the amount sent by the address, over the
\* transactions of every committed block and every pending transaction (so 0
\* for an address that occurs in none).
C14_BalanceQuiescent ==
    [][\A p \in Procs :
          frame[p].pc = "bal_mempool" /\ frame'[p].pc = "done" /\ ~MineInFlight
          => frame'[p].resp.balance
               = Balance(Committed(chain) \o mempoolTxs, frame[p].address)
      ]_vars

\* C14 witness: after a submission alice -> bob of 5 and one mine by the
\* default miner, with nothing pending and no mine in flight, a query has
\* answered -5 for alice.
C14_Witness ==
    \E p \in Procs :
        /\ frame[p].kind = "balance" /\ frame[p].pc = "done"
        /\ frame[p].address = "alice" /\ frame[p].resp.balance = -5
        /\ ~MineInFlight
        /\ Len(chain) = 2 /\ Len(chain[2].Transactions) = 2
        /\ chain[2].Transactions[1].To = DefaultMiner
        /\ mempoolTxs = <<>>


\* IsPrefix(s, t): s is an initial part of t, block for block.
IsPrefix(s, t) == Len(s) <= Len(t) /\ \A i \in 1..Len(s) : t[i] = s[i]

\* C15: in every step the chain before is a prefix of the chain after, so no
\* committed block, the genesis block included, is removed, moved or changed
\* in any field; and the chain is never empty.
C15_AppendOnly ==
    [][chain # <<>> /\ chain' # <<>> /\ IsPrefix(chain, chain')]_vars

\* C15 witness: two blocks have been appended and the genesis block is still
\* the first one.
C15_Witness ==
    /\ Len(chain) = 3
    /\ chain[1].Index = 0 /\ chain[1].Transactions = <<>>
    /\ chain[2].Transactions # <<>> /\ chain[3].Transactions # <<>>


\* The steps of a request that has been accepted.
Step(p) ==
    \/ AddLock(p) \/ AddAppend(p) \/ GetMempoolRead(p) \/ GetChainRead(p)
    \/ FlushLock(p) \/ FlushMempool(p) \/ LastLock(p) \/ LastRead(p)
    \/ ProofOfWork(p) \/ BlockLock(p) \/ BlockAppend(p)
    \/ BalanceMempoolLock(p) \/ BalanceMempool(p) \/ Return(p)

WantsMempool(p) == frame[p].pc \in {"add_lock", "flush_lock", "bal_lock"}
WantsChain(p) == frame[p].pc \in {"last_lock", "block_lock"}

\* The holder of the lock p is about to take (0: none, or no lock wanted).
HolderOfWanted(p) ==
    IF WantsMempool(p) THEN mempoolMutex
    ELSE IF WantsChain(p) THEN blockchainMutex ELSE 0

\* Every request of S waits for a lock that a request of S holds.
Stuck(S) ==
    /\ S # {}
    /\ \A p \in S : /\ WantsMempool(p) \/ WantsChain(p)
                    /\ ~ENABLED Step(p)
                    /\ HolderOfWanted(p) \in S

\* C16: no reachable state has a set of requests each waiting for a lock held
\* inside the set; a request that holds the mempool lock never waits for the
\* chain lock, and one that holds both is in getBalance, which took the chain
\* lock first.
C16_DeadlockFreedom ==
    /\ \A S \in SUBSET Procs : ~Stuck(S)
    /\ \A p \in Procs :
          mempoolMutex = p
          => /\ ~WantsChain(p)
             /\ blockchainMutex = p => frame[p].pc = "bal_mempool"

\* C16 witness: a balance query holds the chain lock and waits for the mempool
\* lock, which a mine request holds inside flushMempool; the miner will want
\* the chain lock next.
C16_Witness ==
    \E p, q \in Procs :
        /\ frame[p].pc = "bal_lock" /\ blockchainMutex = p
        /\ frame[q].pc = "flush" /\ mempoolMutex = q
        /\ ~ENABLED Step(p) /\ ENABLED Step(q)


\* A mine request has drained the mempool and not yet appended its block.
InHandoff(q) ==
    Mining(q) /\ frame[q].pc \in {"last_lock", "last_read", "pow", "block_lock",
                                   "block_append"}

\* A balance query is between taking the chain lock and answering.
Querying(p) == frame[p].pc \in {"bal_lock", "bal_mempool"}

\* The transactions a query answering now has summed: the committed ones it
\* read under the chain lock and the pending ones.
Summed == Committed(chain) \o mempoolTxs

\* C17: a balance query concurrent with submit and mine requests answers the
\* net amount over transactions each counted at most once, among them every
\* transaction committed when it took the chain lock (the chain does not
\* change while it runs); a transaction accepted into the mempool, or a
\* reward, can be missing only while a mine request holds it between drain
\* and append.
C17_NoDoubleCount ==
    [][\A p \in Procs :
          /\ Querying(p) => chain' = chain
          /\ frame[p].pc = "bal_mempool" /\ frame'[p].pc = "done"
             => /\ frame'[p].resp.balance = Balance(Summed, frame[p].address)
                /\ \A i, j \in 1..Len(Summed) :
                      Summed[i].ID = Summed[j].ID => i = j
                /\ \A t \in Range(added) :
                      \/ t \in Range(Summed)
                      \/ \E q \in Procs : InHandoff(q) /\ t \in Range(frame[q].selected)
                /\ \A id \in 1..nextId :
                      \/ \E t \in Range(Summed) : t.ID = id
                      \/ \E q \in Procs :
                            /\ InHandoff(q)
                            /\ \E t \in Range(frame[q].selected) : t.ID = id
                      \/ \E q \in Procs :
                            /\ frame[q].pc \in {"add_lock", "add_append"}
                            /\ frame[q].tx.ID = id
      ]_vars

\* C17 witness: a query holds both locks and is about to sum the mempool
\* while a mine request holds a drained transaction that pays the queried
\* address.
C17_Witness ==
    \E p, q \in Procs :
        /\ frame[p].pc = "bal_mempool"
        /\ InHandoff(q)
        /\ frame[q].drained # <<>>
        /\ frame[q].drained[1].To = frame[p].address


(***************************************************************************)
(* The service under fair scheduling.  Requests that only read leave no     *)
(* trace, so any number of them may be served: MaxRequests then bounds the  *)
(* requests that write and the reads not yet returned.                      *)
(***************************************************************************)
ReadKinds == {"pending", "chain", "ping", "balance"}

\* The return of a handler that only read.
ReturnRead(p) ==
    /\ frame[p].pc = "done"
    /\ frame[p].kind \in ReadKinds
    /\ requests' = requests - 1
    /\ frame' = [frame EXCEPT ![p] = IdleFrame]
    /\ UNCHANGED <<chain, blockchainMutex, mempoolTxs, mempoolMutex, now,
                   nextId, mines, added, flushed,
                   Blocks, hashed>>

ServeFair == Serve \/ \E p \in Procs : ReturnRead(p)

\* The steps of an accepted request other than the nonce search.
Running(p) ==
    \/ AddLock(p) \/ AddAppend(p) \/ GetMempoolRead(p) \/ GetChainRead(p)
    \/ FlushLock(p) \/ FlushMempool(p) \/ LastLock(p) \/ LastRead(p)
    \/ BlockLock(p) \/ BlockAppend(p)
    \/ BalanceMempoolLock(p) \/ BalanceMempool(p)
    \/ Return(p) \/ ReturnRead(p)

\* Every accepted request keeps running: weak fairness of its steps.  For
\* the search, which can run whenever some nonce satisfies the difficulty,
\* weak fairness says that no request stays in it for ever.
SpecFair ==
    /\ Init
    /\ [][ServeFair]_vars
    /\ \A p \in Procs : WF_vars(Running(p)) /\ []<>(frame[p].pc # "pow")

\* The block of p's mine request is on the chain, with the reward and
\* exactly the transactions the request drained.
Appended(p) ==
    /\ Mining(p) /\ frame[p].pc = "done"
    /\ frame[p].selected = <<frame[p].selected[1]>> \o DrainedBy(p)
    /\ \E i \in 2..Len(chain) :
          /\ chain[i] = frame[p].resp.block
          /\ chain[i].Transactions = frame[p].selected

ChainLockHandoff ==
    \A p \in Procs : SF_vars(LastLock(p)) /\ SF_vars(BlockLock(p))

MaxBlocksHlukhov == 4

\* time.Now().String(), cut to its last two digits
TimestampInputs == {<<"0", "1">>, <<"0", "2">>}

DataInputs == {<<"My first block">>, <<"My second block">>}

GenesisNonceHlukhov == 18092004

\* hex.EncodeToString for lab1: every digit shows the digest in base 3
HexDigitsHlukhov == <<"0", "9", "f">>

HexOfHlukhov(c) ==
    [i \in 1..HashLen |->
        HexDigitsHlukhov[((c \div (Len(HexDigitsHlukhov) ^ (HashLen - i)))
                          % Len(HexDigitsHlukhov)) + 1]]

RecordHlukhov(block) ==
    Itoa(block.Index) \o block.Timestamp \o block.Data \o block.PrevHash
    \o Itoa(block.Nonce)

calculateHashHlukhov(block) ==
    HexOfHlukhov(Absorb(InitialState, RecordHlukhov(block)))

\* strings.HasSuffix
HasSuffix(s, suffix) ==
    /\ Len(s) >= Len(suffix)
    /\ SubSeq(s, Len(s) - Len(suffix) + 1, Len(s)) = suffix

SuffixHlukhov == <<"0", "9">>

createGenesisBlockHlukhov(t) ==
    LET genesis == [Index |-> 0, Timestamp |-> t, Data |-> <<"Genesis Block">>,
                    PrevHash |-> <<"Hlukhov">>, Hash |-> <<>>,
                    Nonce |-> GenesisNonceHlukhov]
    IN  [genesis EXCEPT !.Hash = calculateHashHlukhov(genesis)]

\* A new block that takes the genesis PrevHash instead of the last Hash.
NewBlockHlukhovUnlinked(blocks, data, t) ==
    [Index |-> Len(blocks), Timestamp |-> t, Data |-> data,
     PrevHash |-> <<"Hlukhov">>, Hash |-> <<>>, Nonce |-> 0]

\* addBlockHlukhov: newBlock before the loop
NewBlockHlukhov(blocks, data, t) ==
    [Index |-> Len(blocks), Timestamp |-> t, Data |-> data,
     PrevHash |-> blocks[Len(blocks)].Hash, Hash |-> <<>>, Nonce |-> 0]

\* addBlockHlukhov: the loop, entered with newBlock; it is followed for
\* nonces up to MaxNonce.
RECURSIVE MineHlukhov(_)
MineHlukhov(newBlock) ==
    LET block == [newBlock EXCEPT !.Hash = calculateHashHlukhov(newBlock)]
    IN  IF HasSuffix(block.Hash, SuffixHlukhov)
        THEN [found |-> TRUE, block |-> block]
        ELSE IF newBlock.Nonce >= MaxNonce
        THEN [found |-> FALSE, block |-> block]
        ELSE MineHlukhov([block EXCEPT !.Nonce = newBlock.Nonce + 1])

addBlockHlukhov ==
    /\ Len(Blocks) <= MaxBlocksHlukhov
    /\ \E data \in DataInputs, t \in TimestampInputs :
         LET r == MineHlukhov(NewBlockHlukhov(Blocks, data, t))
         IN  /\ r.found
             /\ Blocks' = Append(Blocks, r.block)
    /\ UNCHANGED <<chain, blockchainMutex, mempoolTxs, mempoolMutex, now, nextId,
                   mines, requests, frame, added, flushed, hashed>>

\* main: the chain holds the genesis block.
InitHlukhov ==
    /\ Started
    /\ hashed = <<>>
    /\ \E t \in TimestampInputs : Blocks = <<createGenesisBlockHlukhov(t)>>

NextHlukhov == addBlockHlukhov

SpecHlukhov == InitHlukhov /\ [][NextHlukhov]_vars

\* What the claim says of the block at position i (counted from 0) of bs.
ValidHlukhov(bs, i) ==
    LET b == bs[i + 1]
    IN  /\ b.Index = i
        /\ b.Hash = calculateHashHlukhov(b)
        /\ i = 0 => /\ b.PrevHash = <<"Hlukhov">>
                    /\ b.Nonce = 18092004
        /\ i > 0 => /\ b.PrevHash = bs[i].Hash
                    /\ Len(b.Hash) >= 2
                    /\ b.Hash[Len(b.Hash) - 1] = "0"
                    /\ b.Hash[Len(b.Hash)] = "9"
                    /\ b.Nonce >= 0
                    /\ \A m \in 0..(b.Nonce - 1) :
                          LET h == calculateHashHlukhov([b EXCEPT !.Nonce = m])
                          IN  ~(h[Len(h) - 1] = "0" /\ h[Len(h)] = "9")

\* C19: in lab1, from the genesis block (Index 0, PrevHash "Hlukhov", Nonce
\* 18092004, no suffix rule) on, every addBlockHlukhov call leaves the blocks
\* it found unchanged and adds one, and then the block at every position i
\* has Index i and Hash equal to calculateHashHlukhov of its fields, and for
\* i > 0 its PrevHash is the Hash of block i-1, its Hash ends in "09" and its
\* Nonce is the smallest non-negative integer that gives such a hash.
C19_ChainValidityHlukhov ==
    [][/\ \A i \in 0..(Len(Blocks) - 1) : ValidHlukhov(Blocks, i)
       /\ Len(Blocks') = Len(Blocks) + 1
       /\ IsPrefix(Blocks, Blocks')
       /\ \A i \in 0..(Len(Blocks') - 1) : ValidHlukhov(Blocks', i)
      ]_vars

\* C19 witness: two blocks follow a genesis block whose hash does not end in
\* "09", and both took a search past nonce 0.
C19_Witness ==
    /\ Len(Blocks) = 3
    /\ ~HasSuffix(Blocks[1].Hash, SuffixHlukhov)
    /\ Blocks[2].Nonce > 0 /\ Blocks[3].Nonce > 0


(***************************************************************************)
(* calculateHash on its own: two blocks are handed to it, and the records   *)
(* it digests and the hashes it returns are kept.                           *)
(***************************************************************************)
IndexInputs == {1, 11}

\* Unix seconds: 2023-11-14 22:13:20 and 1992-03-07 20:26:40
TimestampSeconds == {1700000000, 700000000}

TransactionsInputs ==
    {<<>>, <<createTransaction(1, "alice", "bob", 5, 1700000000)>>}

NonceInputs == {0, 5}

PreviousHashInputs == {<<>>, <<"0", "0", "0", "f", "0", "f">>}

BlockInputs ==
    [Index : IndexInputs, Timestamp : TimestampSeconds,
     Transactions : TransactionsInputs, Nonce : NonceInputs,
     PreviousHash : PreviousHashInputs, Hash : {<<>>}]

InitRecord ==
    /\ Started
    /\ Blocks = <<>>
    /\ \E a \in BlockInputs, b \in BlockInputs :
          hashed = [left |-> a, right |-> b, records |-> <<>>, hashes |-> <<>>]

\* calculateHash(left) and calculateHash(right)
CalculateHash ==
    /\ hashed.records = <<>>
    /\ hashed' = [hashed EXCEPT
                     !.records = <<Record(hashed.left), Record(hashed.right)>>,
                     !.hashes = <<calculateHash(hashed.left),
                                  calculateHash(hashed.right)>>]
    /\ UNCHANGED <<chain, blockchainMutex, mempoolTxs, mempoolMutex, now, nextId,
                   mines, requests, frame, added, flushed, Blocks>>

NextRecord == CalculateHash

SpecRecord == InitRecord /\ [][NextRecord]_vars

\* The five fields calculateHash reads.
Fields(b) == <<b.Index, b.Timestamp, b.Transactions, b.Nonce, b.PreviousHash>>

DifficultyInputs == 0..Difficulty

InitSearch ==
    /\ Started
    /\ Blocks = <<>>
    /\ \E b \in BlockInputs, d \in DifficultyInputs :
          hashed = [b |-> b, difficulty |-> d, returned |-> FALSE,
                    nonce |-> 0, hash |-> <<>>]

\* nonce, hash := proofOfWork(b, difficulty)
ProofOfWorkCall ==
    /\ ~hashed.returned
    /\ LET r == proofOfWork(hashed.b, hashed.difficulty)
       IN  /\ r.found
           /\ hashed' = [hashed EXCEPT !.returned = TRUE, !.nonce = r.nonce,
                                       !.hash = r.hash]
    /\ UNCHANGED <<chain, blockchainMutex, mempoolTxs, mempoolMutex, now, nextId,
                   mines, requests, frame, added, flushed, Blocks>>

NextSearch == ProofOfWorkCall

SpecSearch == InitSearch /\ [][NextSearch]_vars

\* C12: proofOfWork(b, d) returns the smallest nonce, counted from 0
\* whatever nonce b came with, whose hash begins with d zeros, together with
\* exactly that hash.
C12_ProofOfWorkResult ==
    hashed.returned
    => FirstNonce(hashed.b, hashed.difficulty, hashed.nonce, hashed.hash)

\* C12 witness: a search for Difficulty zeros on a block that came with a
\* nonce of its own has returned a nonce above 1, so smaller nonces were
\* tried and refused.
C12_Witness ==
    /\ hashed.returned
    /\ hashed.difficulty = Difficulty
    /\ hashed.b.Nonce # 0
    /\ hashed.nonce > 1

====
